---- MODULE Spec2Model ----
(***************************************************************************)
(* Model of src/Caching_Service.py: a CacheService of at most max_size     *)
(* entities in front of a DatabaseService, with eviction of the entry with *)
(* the smallest access timestamp.                                          *)
(*                                                                         *)
(* Python dicts keep insertion order.  access_timestamps is modelled as an *)
(* ordered dict (a sequence of <<key, value>> pairs) because min() in      *)
(* _evict scans it in that order; cache and database are only ever looked  *)
(* up by key, so they are modelled as maps (functions on their key set).   *)
(*                                                                         *)
(* time.time() is an input: every read returns the previous reading plus a *)
(* tick, and a tick of 0 (two readings that compare equal) is possible.    *)
(* The readings stop growing at MaxTime.                                   *)
(*                                                                         *)
(* Spec is the program as written: DatabaseService is an in-memory dict    *)
(* and none of its operations raises.  SpecFault is the same program with  *)
(* a store whose medium may fail: every DatabaseService call may raise     *)
(* before it changes anything.  SpecConcurrent runs two add calls on one   *)
(* CacheService from two threads, one statement of add or _evict per step. *)
(***************************************************************************)
EXTENDS Integers, Sequences, FiniteSets, TLC

\* ---------------------------------------------------------------- bounds
\* ids "1".."NumIds" are used by callers
NumIds == 3
\* readings of time.time() range over 0..MaxTime
MaxTime == 1

\* ------------------------------------------------------------ value sets
None == "None"
Ids == {ToString(i) : i \in 1..NumIds}
Data == {"A", "B"}
\* Entity(id, data)
Entity(id, data) == [id |-> id, data |-> data]
\* the entities callers pass in: every id with payload "A", and the ids of
\* Copied also as a second copy with payload "B"
Copied == {"1"}
Entities == {Entity(i, "A") : i \in Ids} \cup {Entity(i, "B") : i \in Copied}
\* Optional[Entity] with the value None
NoEntity == [id |-> None, data |-> None]
\* the max_size arguments the constructor is called with: two that it
\* rejects, 2 as in test_cache_service, and the smallest it accepts
SizeArgs == {-1, 0, 1, 2}
Ticks == {0, 1}

\* ------------------------------------------------- maps (unordered dict)
EmptyMap == [k \in {} |-> NoEntity]
MapGet(m, k) == IF k \in DOMAIN m THEN m[k] ELSE NoEntity
MapPut(m, k, v) == [x \in (DOMAIN m) \cup {k} |-> IF x = k THEN v ELSE m[x]]
MapDel(m, k) == [x \in (DOMAIN m) \ {k} |-> m[x]]

\* --------------------------------- ordered dict: sequence of <<key, value>>
DictKeys(d) == {d[i][1] : i \in 1..Len(d)}
DictIndex(d, k) == CHOOSE i \in 1..Len(d) : d[i][1] = k
DictGet(d, k) == d[DictIndex(d, k)][2]
\* d[k] = v: an existing key keeps its position, a new key goes last
DictSet(d, k, v) ==
    IF k \in DictKeys(d)
    THEN [i \in 1..Len(d) |-> IF d[i][1] = k THEN <<k, v>> ELSE d[i]]
    ELSE Append(d, <<k, v>>)
\* del d[k]
DictDel(d, k) == SelectSeq(d, LAMBDA p : p[1] # k)

\* MinKey with max() in place of min(): the first key whose value is maximal
NewestKey(d) ==
    LET i == CHOOSE i \in 1..Len(d) :
                 /\ \A j \in 1..Len(d) : d[i][2] >= d[j][2]
                 /\ \A j \in 1..(i - 1) : d[j][2] < d[i][2]
    IN d[i][1]

\* min(d, key=d.get): the first key, in iteration order, whose value is minimal
MinKey(d) ==
    LET i == CHOOSE i \in 1..Len(d) :
                 /\ \A j \in 1..Len(d) : d[i][2] <= d[j][2]
                 /\ \A j \in 1..(i - 1) : d[j][2] > d[i][2]
    IN d[i][1]

\* ------------------------------------------------------------------ state
VARIABLES
    max_size_arg,       \* the max_size argument CacheService(...) was called with
    constructed,        \* a CacheService object exists
    max_size,           \* CacheService.max_size
    cache,              \* CacheService.cache: id -> Entity
    access_timestamps,  \* CacheService.access_timestamps: id -> float, ordered
    database,           \* DatabaseService.database: id -> Entity
    clock,              \* the last reading of time.time()
    last,               \* the last call: its arguments, what it saw, its outcome
    history,            \* the calls made so far, while they follow a scenario
    threads             \* the add calls running concurrently, <<>> when none

vars == <<max_size_arg, constructed, max_size, cache, access_timestamps,
          database, clock, last, history, threads>>

\* the record kept of a call
Call(op, id, data, resident, stored, evicted, result, raised, faulted) ==
    [op |-> op, id |-> id, data |-> data,
     resident |-> resident,      \* id was in cache when the call started
     stored |-> stored,          \* id was in database when the call started
     evicted |-> evicted,        \* id chosen and removed by _evict during the call
     result |-> result,          \* returned Entity (get), NoEntity otherwise
     raised |-> raised,          \* the call ended with an exception
     faulted |-> faulted]        \* a store operation raised during the call

\* The call sequences of the documented scenarios: the eviction test of
\* test_cache_service (add "1", "2", "3") and the promote-on-read scenario
\* (add "1", add "2", get "1").  history follows the calls made since
\* construction for as long as they are a prefix of one of them.
EvictionScenario == << <<"add", "1">>, <<"add", "2">>, <<"add", "3">> >>
PromoteScenario == << <<"add", "1">>, <<"add", "2">>, <<"get", "1">> >>
Scenarios == {EvictionScenario, PromoteScenario}
Forgotten == << <<"...", None>> >>
Remember(h, op, id) ==
    LET h2 == Append(h, <<op, id>>)
    IN IF h # Forgotten
          /\ \E sc \in Scenarios :
                 Len(h2) <= Len(sc) /\ SubSeq(sc, 1, Len(h2)) = h2
       THEN h2
       ELSE Forgotten

\* ------------------------------------------------------- DatabaseService
\* outcome of a store call: the new database and whether it raised.
\* failing names the store operation whose medium fails during the current
\* cache call (None: no failure); a failing operation raises before it
\* changes the dict.
DbOutcome(db, raised) == [database |-> db, raised |-> raised]

\* DatabaseService.save
DbSave(db, entity, failing) ==
    IF failing = "save" THEN DbOutcome(db, TRUE)
    ELSE DbOutcome(MapPut(db, entity.id, entity), FALSE)

\* DatabaseService.remove
DbRemove(db, id, failing) ==
    IF failing = "remove" THEN DbOutcome(db, TRUE)
    ELSE IF id \in DOMAIN db THEN DbOutcome(MapDel(db, id), FALSE)
    ELSE DbOutcome(db, FALSE)

\* DatabaseService.clear
DbClear(db, failing) ==
    IF failing = "clear" THEN DbOutcome(db, TRUE)
    ELSE DbOutcome(EmptyMap, FALSE)

\* DatabaseService.get: an exception is caught and None returned
DbGet(db, id, failing) ==
    IF failing = "get" THEN NoEntity ELSE MapGet(db, id)

\* ----------------------------------------------------------- CacheService
\* outcome of a cache operation
Outcome(c, ts, db, evicted, raised) ==
    [cache |-> c, access_timestamps |-> ts, database |-> db,
     evicted |-> evicted, raised |-> raised]

\* _evict without "del self.access_timestamps[oldest_id]"
EvictKeepsTimestamp(c, ts, db, failing) ==
    IF ts = <<>> THEN Outcome(c, ts, db, None, FALSE)
    ELSE LET oldest_id == MinKey(ts)
             oldest_entity == MapGet(c, oldest_id)
         IN IF oldest_entity # NoEntity
            THEN LET saved == DbSave(db, oldest_entity, failing)
                 IN Outcome(MapDel(c, oldest_id), ts,
                            saved.database, oldest_id, saved.raised)
            ELSE Outcome(c, ts, db, None, FALSE)

\* _evict without "self.database_service.save(oldest_entity)"
EvictWithoutSave(c, ts, db, failing) ==
    IF ts = <<>> THEN Outcome(c, ts, db, None, FALSE)
    ELSE LET oldest_id == MinKey(ts)
             oldest_entity == MapGet(c, oldest_id)
         IN IF oldest_entity # NoEntity
            THEN Outcome(MapDel(c, oldest_id), DictDel(ts, oldest_id),
                         db, oldest_id, FALSE)
            ELSE Outcome(c, ts, db, None, FALSE)

\* _evict that catches the exception of save and returns normally
EvictSwallows(c, ts, db, failing) ==
    IF ts = <<>> THEN Outcome(c, ts, db, None, FALSE)
    ELSE LET oldest_id == MinKey(ts)
             oldest_entity == MapGet(c, oldest_id)
         IN IF oldest_entity # NoEntity
            THEN LET saved == DbSave(db, oldest_entity, failing)
                 IN Outcome(MapDel(c, oldest_id), DictDel(ts, oldest_id),
                            saved.database, oldest_id, FALSE)
            ELSE Outcome(c, ts, db, None, FALSE)

\* CacheService._evict
Evict(c, ts, db, failing) ==
    IF ts = <<>> THEN Outcome(c, ts, db, None, FALSE)
    ELSE LET oldest_id == MinKey(ts)
             oldest_entity == MapGet(c, oldest_id)
         IN IF oldest_entity # NoEntity
            THEN LET saved == DbSave(db, oldest_entity, failing)
                 IN Outcome(MapDel(c, oldest_id), DictDel(ts, oldest_id),
                            saved.database, oldest_id, saved.raised)
            ELSE Outcome(c, ts, db, None, FALSE)

\* add that also stores the entity when its id is already in the cache
AddEntityUpsert(c, ts, db, size, entity, now, failing) ==
    IF entity.id \in DOMAIN c
    THEN Outcome(MapPut(c, entity.id, entity), DictSet(ts, entity.id, now),
                 db, None, FALSE)
    ELSE LET ev == IF Cardinality(DOMAIN c) >= size
                   THEN Evict(c, ts, db, failing)
                   ELSE Outcome(c, ts, db, None, FALSE)
         IN IF ev.raised THEN ev
            ELSE Outcome(MapPut(ev.cache, entity.id, entity),
                         DictSet(ev.access_timestamps, entity.id, now),
                         ev.database, ev.evicted, FALSE)

\* add with "len(self.cache) > self.max_size" as the eviction test
AddEntityLateEvict(c, ts, db, size, entity, now, failing) ==
    IF entity.id \in DOMAIN c
    THEN Outcome(c, DictSet(ts, entity.id, now), db, None, FALSE)
    ELSE LET ev == IF Cardinality(DOMAIN c) > size
                   THEN Evict(c, ts, db, failing)
                   ELSE Outcome(c, ts, db, None, FALSE)
         IN IF ev.raised THEN ev
            ELSE Outcome(MapPut(ev.cache, entity.id, entity),
                         DictSet(ev.access_timestamps, entity.id, now),
                         ev.database, ev.evicted, FALSE)

\* add whose except branch logs the exception and returns instead of raising
AddEntitySwallows(c, ts, db, size, entity, now, failing) ==
    IF entity.id \in DOMAIN c
    THEN Outcome(c, DictSet(ts, entity.id, now), db, None, FALSE)
    ELSE LET ev == IF Cardinality(DOMAIN c) >= size
                   THEN Evict(c, ts, db, failing)
                   ELSE Outcome(c, ts, db, None, FALSE)
         IN IF ev.raised
            THEN Outcome(ev.cache, ev.access_timestamps, ev.database,
                         ev.evicted, FALSE)
            ELSE Outcome(MapPut(ev.cache, entity.id, entity),
                         DictSet(ev.access_timestamps, entity.id, now),
                         ev.database, ev.evicted, FALSE)

\* CacheService.add; now is the reading of time.time()
AddEntity(c, ts, db, size, entity, now, failing) ==
    IF entity.id \in DOMAIN c
    THEN Outcome(c, DictSet(ts, entity.id, now), db, None, FALSE)
    ELSE LET ev == IF Cardinality(DOMAIN c) >= size
                   THEN Evict(c, ts, db, failing)
                   ELSE Outcome(c, ts, db, None, FALSE)
         IN IF ev.raised THEN ev
            ELSE Outcome(MapPut(ev.cache, entity.id, entity),
                         DictSet(ev.access_timestamps, entity.id, now),
                         ev.database, ev.evicted, FALSE)

\* remove with the store's remove inside "if entity.get_id() in self.cache"
RemoveEntityIfCached(c, ts, db, id, failing) ==
    IF id \in DOMAIN c
    THEN LET removed == DbRemove(db, id, failing)
         IN Outcome(MapDel(c, id), DictDel(ts, id), removed.database, None,
                    removed.raised)
    ELSE Outcome(c, ts, db, None, FALSE)

\* CacheService.remove
RemoveEntity(c, ts, db, id, failing) ==
    LET c2 == IF id \in DOMAIN c THEN MapDel(c, id) ELSE c
        ts2 == IF id \in DOMAIN c /\ id \in DictKeys(ts) THEN DictDel(ts, id) ELSE ts
        removed == DbRemove(db, id, failing)
    IN Outcome(c2, ts2, removed.database, None, removed.raised)

\* CacheService.removeAll
RemoveAllEntities(c, ts, db, failing) ==
    LET cleared == DbClear(db, failing)
    IN Outcome(EmptyMap, <<>>, cleared.database, None, cleared.raised)

\* clear that also clears the store, as removeAll does
ClearCacheAndStore(c, ts, db) == Outcome(EmptyMap, <<>>, EmptyMap, None, FALSE)

\* clear that drops only the least recently used entry
ClearCacheOldestOnly(c, ts, db) ==
    IF ts = <<>> THEN Outcome(c, ts, db, None, FALSE)
    ELSE Outcome(MapDel(c, MinKey(ts)), DictDel(ts, MinKey(ts)), db, None, FALSE)

\* CacheService.clear
ClearCache(c, ts, db) == Outcome(EmptyMap, <<>>, db, None, FALSE)

\* get that returns a store hit without adding it to the cache
GetEntityNoPromote(c, ts, db, size, id, now1, now2, failing) ==
    LET hit == MapGet(c, id)
    IN IF hit # NoEntity
       THEN [out |-> Outcome(c, DictSet(ts, id, now2), db, None, FALSE),
             result |-> hit]
       ELSE [out |-> Outcome(c, ts, db, None, FALSE),
             result |-> DbGet(db, id, failing)]

\* get that asks the store first and the cache only on a store miss
GetEntityStoreFirst(c, ts, db, size, id, now1, now2, failing) ==
    LET stored == DbGet(db, id, failing)
        found == IF stored = NoEntity THEN MapGet(c, id) ELSE stored
        put == IF found # NoEntity /\ id \notin DOMAIN c
               THEN AddEntity(c, ts, db, size, found, now1, failing)
               ELSE Outcome(c, ts, db, None, FALSE)
    IN IF put.raised
       THEN [out |-> Outcome(put.cache, put.access_timestamps, put.database,
                             put.evicted, FALSE),
             result |-> NoEntity]
       ELSE IF found # NoEntity
       THEN [out |-> Outcome(put.cache, DictSet(put.access_timestamps, id, now2),
                             put.database, put.evicted, FALSE),
             result |-> found]
       ELSE [out |-> put, result |-> NoEntity]

\* get that records an access time even for an id found in neither tier
GetEntityStampsMiss(c, ts, db, size, id, now1, now2, failing) ==
    LET hit == MapGet(c, id)
        found == IF hit = NoEntity THEN DbGet(db, id, failing) ELSE hit
        added == IF hit = NoEntity /\ found # NoEntity
                 THEN AddEntity(c, ts, db, size, found, now1, failing)
                 ELSE Outcome(c, ts, db, None, FALSE)
    IN IF added.raised
       THEN [out |-> Outcome(added.cache, added.access_timestamps,
                             added.database, added.evicted, FALSE),
             result |-> NoEntity]
       ELSE [out |-> Outcome(added.cache,
                             DictSet(added.access_timestamps, id, now2),
                             added.database, added.evicted, FALSE),
             result |-> found]

\* get that moves a promoted entity: its copy is deleted from the store
GetEntityMovesFromStore(c, ts, db, size, id, now1, now2, failing) ==
    LET hit == MapGet(c, id)
        found == IF hit = NoEntity THEN DbGet(db, id, failing) ELSE hit
        added == IF hit = NoEntity /\ found # NoEntity
                 THEN AddEntity(c, ts, db, size, found, now1, failing)
                 ELSE Outcome(c, ts, db, None, FALSE)
    IN IF added.raised
       THEN [out |-> Outcome(added.cache, added.access_timestamps,
                             added.database, added.evicted, FALSE),
             result |-> NoEntity]
       ELSE IF found # NoEntity
       THEN [out |-> Outcome(added.cache,
                             DictSet(added.access_timestamps, id, now2),
                             IF hit = NoEntity THEN MapDel(added.database, id)
                                               ELSE added.database,
                             added.evicted, FALSE),
             result |-> found]
       ELSE [out |-> added, result |-> NoEntity]

\* CacheService.get; now1 is read inside add, now2 by get itself.  Every
\* exception is caught and None returned.
GetEntity(c, ts, db, size, id, now1, now2, failing) ==
    LET hit == MapGet(c, id)
        found == IF hit = NoEntity THEN DbGet(db, id, failing) ELSE hit
        added == IF hit = NoEntity /\ found # NoEntity
                 THEN AddEntity(c, ts, db, size, found, now1, failing)
                 ELSE Outcome(c, ts, db, None, FALSE)
    IN IF added.raised
       THEN [out |-> Outcome(added.cache, added.access_timestamps,
                             added.database, added.evicted, FALSE),
             result |-> NoEntity]
       ELSE IF found # NoEntity
       THEN [out |-> Outcome(added.cache,
                             DictSet(added.access_timestamps, id, now2),
                             added.database, added.evicted, FALSE),
             result |-> found]
       ELSE [out |-> added, result |-> NoEntity]

\* __init__ that rejects only a negative max_size
ConstructAcceptsZero(size) ==
    IF size < 0
    THEN [constructed |-> FALSE, max_size |-> 0]
    ELSE [constructed |-> TRUE, max_size |-> size]

\* CacheService.__init__
Construct(size) ==
    IF size <= 0
    THEN [constructed |-> FALSE, max_size |-> 0]
    ELSE [constructed |-> TRUE, max_size |-> size]

\* ---------------------------------------------------------------- actions
Init ==
    \E size \in SizeArgs :
        /\ max_size_arg = size
        /\ constructed = Construct(size).constructed
        /\ max_size = Construct(size).max_size
        /\ cache = EmptyMap
        /\ access_timestamps = <<>>
        /\ database = EmptyMap
        /\ clock = 0
        /\ last = Call("__init__", None, None, FALSE, FALSE, None,
                       NoEntity, ~Construct(size).constructed, FALSE)
        /\ history = <<>>
        /\ threads = <<>>

\* what every call records about the state it starts in
Seen(op, id, data, out, result, faulted) ==
    Call(op, id, data, id \in DOMAIN cache, id \in DOMAIN database,
         out.evicted, result, out.raised, faulted)

Commit(out) ==
    /\ cache' = out.cache
    /\ access_timestamps' = out.access_timestamps
    /\ database' = out.database
    /\ UNCHANGED <<max_size_arg, constructed, max_size, threads>>

\* the store operations a cache call may see fail, out of those it makes
Failing(Faults, made) == {None} \cup (Faults \cap made)

\* The store operation that is to fail raised during the call: remove and
\* removeAll always call the store; save is called by _evict when it has
\* chosen a victim; the store's get is called by a get that misses the cache.
SaveFaulted(out, failing) == failing = "save" /\ out.evicted # None
GetFaulted(id, failing) == failing = "get" /\ id \notin DOMAIN cache

\* cache_service.add(Entity(id, data))
Add(Faults) ==
    \E entity \in Entities, tick \in Ticks, failing \in Failing(Faults, {"save"}) :
        LET now == clock + tick
            out == AddEntity(cache, access_timestamps, database, max_size,
                             entity, now, failing)
        IN /\ constructed
           /\ now <= MaxTime
           /\ Commit(out)
           /\ clock' = now
           /\ last' = Seen("add", entity.id, entity.data, out, NoEntity,
                           SaveFaulted(out, failing))
           /\ history' = Remember(history, "add", entity.id)

\* cache_service.get(Entity(id, _))
Get(Faults) ==
    \E id \in Ids, tick1 \in Ticks, tick2 \in Ticks,
       failing \in Failing(Faults, {"get", "save"}) :
        LET now1 == clock + tick1
            now2 == now1 + tick2
            got == GetEntity(cache, access_timestamps, database, max_size,
                             id, now1, now2, failing)
        IN /\ constructed
           /\ now2 <= MaxTime
           /\ Commit(got.out)
           /\ clock' = now2
           /\ last' = Seen("get", id, None, got.out, got.result,
                           SaveFaulted(got.out, failing) \/ GetFaulted(id, failing))
           /\ history' = Remember(history, "get", id)

\* cache_service.remove(Entity(id, _))
Remove(Faults) ==
    \E id \in Ids, failing \in Failing(Faults, {"remove"}) :
        LET out == RemoveEntity(cache, access_timestamps, database, id, failing)
        IN /\ constructed
           /\ Commit(out)
           /\ UNCHANGED clock
           /\ last' = Seen("remove", id, None, out, NoEntity, failing = "remove")
           /\ history' = Remember(history, "remove", id)

\* cache_service.removeAll()
RemoveAll(Faults) ==
    \E failing \in Failing(Faults, {"clear"}) :
        LET out == RemoveAllEntities(cache, access_timestamps, database, failing)
        IN /\ constructed
           /\ Commit(out)
           /\ UNCHANGED clock
           /\ last' = Seen("removeAll", None, None, out, NoEntity,
                           failing = "clear")
           /\ history' = Remember(history, "removeAll", None)

\* cache_service.clear()
Clear ==
    LET out == ClearCache(cache, access_timestamps, database)
    IN /\ constructed
       /\ Commit(out)
       /\ UNCHANGED clock
       /\ last' = Seen("clear", None, None, out, NoEntity, FALSE)
       /\ history' = Remember(history, "clear", None)

NoFault == {}
MayFault == {"save", "remove", "clear", "get"}

Next ==
    \/ Add(NoFault)
    \/ Get(NoFault)
    \/ Remove(NoFault)
    \/ RemoveAll(NoFault)
    \/ Clear

NextFault ==
    \/ Add(MayFault)
    \/ Get(MayFault)
    \/ Remove(MayFault)
    \/ RemoveAll(MayFault)
    \/ Clear

Spec == Init /\ [][Next]_vars

SpecFault == Init /\ [][NextFault]_vars

\* ------------------------------------------- add, statement by statement
\* Two threads call add on the same CacheService.  CacheService has no lock,
\* so the statements of the two calls interleave; each statement of add and
\* of _evict is one step, named by its line.  A thread's pc is the line it
\* executes next.
Threads == {1, 2}
Thread(entity, resident) ==
    [pc |-> "111", entity |-> entity,
     resident |-> resident,       \* the id was in cache when the call started
     oldest_id |-> None,          \* _evict's local oldest_id
     oldest_entity |-> NoEntity,  \* _evict's local oldest_entity
     evicted |-> None,            \* the id this call deleted from cache
     raised |-> FALSE]            \* the call ended with an exception

\* thread.start() for two add calls with distinct ids
StartPair ==
    /\ constructed
    /\ threads = <<>>
    /\ \E e1 \in Entities, e2 \in Entities :
           /\ e1.id # e2.id
           /\ threads' = << Thread(e1, e1.id \in DOMAIN cache),
                            Thread(e2, e2.id \in DOMAIN cache) >>
    /\ UNCHANGED <<max_size_arg, constructed, max_size, cache,
                   access_timestamps, database, clock, last, history>>

At(t, pc) == threads # <<>> /\ threads[t].pc = pc
Goto(t, pc) == threads' = [threads EXCEPT ![t].pc = pc]
\* an exception inside the try block of add: logged and re-raised
Raise(t) == threads' = [threads EXCEPT ![t].pc = "done", ![t].raised = TRUE]
Shared == <<cache, access_timestamps, database>>
Fixed == <<max_size_arg, constructed, max_size, last, history>>

\* line 111: if entity.get_id() in self.cache
CheckResident(t) ==
    /\ At(t, "111")
    /\ Goto(t, IF threads[t].entity.id \in DOMAIN cache THEN "112" ELSE "116")
    /\ UNCHANGED <<Shared, Fixed, clock>>

\* line 112: self.access_timestamps[entity.get_id()] = time.time()
Refresh(t) ==
    /\ At(t, "112")
    /\ \E tick \in Ticks :
           /\ clock + tick <= MaxTime
           /\ clock' = clock + tick
           /\ access_timestamps' = DictSet(access_timestamps,
                                           threads[t].entity.id, clock + tick)
    /\ Goto(t, "done")
    /\ UNCHANGED <<cache, database, Fixed>>

\* line 116: if len(self.cache) >= self.max_size
CheckFull(t) ==
    /\ At(t, "116")
    /\ Goto(t, IF Cardinality(DOMAIN cache) >= max_size THEN "204" ELSE "120")
    /\ UNCHANGED <<Shared, Fixed, clock>>

\* lines 204-205: if not self.access_timestamps: return
CheckTimestamps(t) ==
    /\ At(t, "204")
    /\ Goto(t, IF access_timestamps = <<>> THEN "120" ELSE "208")
    /\ UNCHANGED <<Shared, Fixed, clock>>

\* line 208: oldest_id = min(self.access_timestamps, key=...)
FindOldest(t) ==
    /\ At(t, "208")
    /\ IF access_timestamps = <<>>
       THEN Raise(t)               \* min() of an empty dict: ValueError
       ELSE threads' = [threads EXCEPT ![t].pc = "209",
                                       ![t].oldest_id = MinKey(access_timestamps)]
    /\ UNCHANGED <<Shared, Fixed, clock>>

\* line 209: oldest_entity = self.cache.get(oldest_id)
ReadOldest(t) ==
    /\ At(t, "209")
    /\ threads' = [threads EXCEPT
                       ![t].pc = "211",
                       ![t].oldest_entity = MapGet(cache, threads[t].oldest_id)]
    /\ UNCHANGED <<Shared, Fixed, clock>>

\* line 211: if oldest_entity
CheckOldest(t) ==
    /\ At(t, "211")
    /\ Goto(t, IF threads[t].oldest_entity # NoEntity THEN "213" ELSE "120")
    /\ UNCHANGED <<Shared, Fixed, clock>>

\* line 213: del self.cache[oldest_id]
DelCache(t) ==
    /\ At(t, "213")
    /\ IF threads[t].oldest_id \in DOMAIN cache
       THEN /\ cache' = MapDel(cache, threads[t].oldest_id)
            /\ threads' = [threads EXCEPT ![t].pc = "214",
                                          ![t].evicted = threads[t].oldest_id]
       ELSE /\ Raise(t)            \* KeyError
            /\ UNCHANGED cache
    /\ UNCHANGED <<access_timestamps, database, Fixed, clock>>

\* line 214: del self.access_timestamps[oldest_id]
DelTimestamp(t) ==
    /\ At(t, "214")
    /\ IF threads[t].oldest_id \in DictKeys(access_timestamps)
       THEN /\ access_timestamps' = DictDel(access_timestamps, threads[t].oldest_id)
            /\ Goto(t, "217")
       ELSE /\ Raise(t)            \* KeyError
            /\ UNCHANGED access_timestamps
    /\ UNCHANGED <<cache, database, Fixed, clock>>

\* line 217: self.database_service.save(oldest_entity)
SaveOldest(t) ==
    /\ At(t, "217")
    /\ database' = DbSave(database, threads[t].oldest_entity, None).database
    /\ Goto(t, "120")
    /\ UNCHANGED <<cache, access_timestamps, Fixed, clock>>

\* line 120: self.cache[entity.get_id()] = entity
InsertCache(t) ==
    /\ At(t, "120")
    /\ cache' = MapPut(cache, threads[t].entity.id, threads[t].entity)
    /\ Goto(t, "121")
    /\ UNCHANGED <<access_timestamps, database, Fixed, clock>>

\* line 121: self.access_timestamps[entity.get_id()] = time.time()
InsertTimestamp(t) ==
    /\ At(t, "121")
    /\ \E tick \in Ticks :
           /\ clock + tick <= MaxTime
           /\ clock' = clock + tick
           /\ access_timestamps' = DictSet(access_timestamps,
                                           threads[t].entity.id, clock + tick)
    /\ Goto(t, "done")
    /\ UNCHANGED <<cache, database, Fixed>>

\* calls made before the threads start
Sequential == threads = <<>> /\ Add(NoFault)

NextConcurrent ==
    \/ Sequential
    \/ StartPair
    \/ \E t \in Threads : CheckResident(t)
    \/ \E t \in Threads : Refresh(t)
    \/ \E t \in Threads : CheckFull(t)
    \/ \E t \in Threads : CheckTimestamps(t)
    \/ \E t \in Threads : FindOldest(t)
    \/ \E t \in Threads : ReadOldest(t)
    \/ \E t \in Threads : CheckOldest(t)
    \/ \E t \in Threads : DelCache(t)
    \/ \E t \in Threads : DelTimestamp(t)
    \/ \E t \in Threads : SaveOldest(t)
    \/ \E t \in Threads : InsertCache(t)
    \/ \E t \in Threads : InsertTimestamp(t)

SpecConcurrent == Init /\ [][NextConcurrent]_vars

\* ------------------------------------------------------------- properties
Size == Cardinality(DOMAIN cache)
Keys == DictKeys(access_timestamps)
\* the call of the step inserts a non-resident id: an add of one, or a get
\* that found it in the store
Inserts ==
    /\ ~last'.resident
    /\ \/ last'.op = "add"
       \/ last'.op = "get" /\ last'.result # NoEntity
\* v has the smallest timestamp of the state the step starts in
Oldest(v) ==
    /\ v \in Keys
    /\ \A k \in Keys : DictGet(access_timestamps, v) <= DictGet(access_timestamps, k)

\* C1 (capacity invariant): after every call of add, get, remove, removeAll
\* or clear, also one that ends with a storage fault, the cache holds at most
\* max_size entries.
CapacityInvariant == constructed => Size <= max_size

\* an add into a full cache whose eviction ended with a storage fault
CapacityWitness ==
    /\ last.op = "add" /\ last.raised /\ last.evicted # None
    /\ Size = max_size - 1

\* C2 (lockstep invariant): cache and access_timestamps have the same keys
\* in every state, and access_timestamps holds each key once.
LockstepInvariant ==
    /\ DOMAIN cache = Keys
    /\ Len(access_timestamps) = Cardinality(Keys)

\* a get promoted an entity from the store into a full cache
LockstepWitness ==
    /\ last.op = "get" /\ last.result # NoEntity /\ last.evicted # None
    /\ DOMAIN cache = Keys /\ Size = 2

\* C3 (LRU eviction): the id a call evicts is resident and no resident id
\* has a smaller timestamp; and with max_size = 2, add "1", add "2", add "3"
\* on the new cache evicts "1" to the store and leaves exactly "2" and "3"
\* in the cache.
EvictsOldestStep ==
    last'.evicted # None => last'.evicted \in DOMAIN cache /\ Oldest(last'.evicted)
OneEvictionStep ==
    Inserts =>
        IF Size >= max_size
        THEN \E v \in DOMAIN cache :
                 /\ v # last'.id
                 /\ last'.evicted = v
                 /\ DOMAIN cache' = (DOMAIN cache \ {v}) \cup {last'.id}
                 /\ database' = MapPut(database, v, cache[v])
                 /\ Cardinality(DOMAIN cache') = max_size
        ELSE /\ last'.evicted = None
             /\ DOMAIN cache' = DOMAIN cache \cup {last'.id}
             /\ \A k \in DOMAIN cache : cache'[k] = cache[k]
             /\ database' = database
OneEviction == [][OneEvictionStep]_vars

\* an add of a non-resident id evicted one id from a full cache of two
OneEvictionWitness ==
    /\ last.op = "add" /\ ~last.resident /\ last.evicted # None
    /\ last.evicted \in DOMAIN database /\ last.evicted \notin DOMAIN cache
    /\ Size = max_size /\ max_size = 2

\* C5 (refresh, not overwrite, on re-add): an add of an id that is resident
\* leaves the cache and the store as they are, whatever data the entity
\* carries, and sets only that id's timestamp, to the reading of the clock;
\* the get that follows it for that id returns the entity the cache held.
ReAddStep ==
    last'.op = "add" /\ last'.resident =>
        /\ cache' = cache
        /\ database' = database
        /\ DictKeys(access_timestamps') = Keys
        /\ DictGet(access_timestamps', last'.id) = clock'
        /\ \A k \in Keys \ {last'.id} :
               DictGet(access_timestamps', k) = DictGet(access_timestamps, k)
GetAfterReAddStep ==
    (last.op = "add" /\ last.resident /\ last'.op = "get" /\ last'.id = last.id)
        => last'.result = cache[last.id]
RefreshNotOverwrite == [][ReAddStep /\ GetAfterReAddStep]_vars

\* a resident id was added again with other data than the cache holds
RefreshNotOverwriteWitness ==
    /\ last.op = "add" /\ last.resident
    /\ last.id \in DOMAIN cache /\ cache[last.id].data # last.data

\* the id whose recency the call recorded in l refreshed: a re-add of a
\* resident id, or a get that returned an entity
RefreshedBy(l) ==
    IF l.op = "add" /\ l.resident /\ ~l.raised THEN l.id
    ELSE IF l.op = "get" /\ l.result # NoEntity THEN l.id
    ELSE None

\* C6 (a refresh protects from the next eviction): with max_size >= 2, the
\* id refreshed by a call (a re-add of a resident id, a get that returned an
\* entity) is not the id evicted by the call that follows it.
RefreshProtectsStep ==
    (max_size >= 2 /\ RefreshedBy(last) # None /\ last'.evicted # None)
        => last'.evicted # RefreshedBy(last)
RefreshProtects == [][RefreshProtectsStep]_vars

\* C7 (promote on read): a get of an id that is in the store and not in the
\* cache returns the store's entity and leaves it resident with the latest
\* clock reading as its timestamp; into a full cache it evicts exactly one
\* other id, one of minimal timestamp, to the store, and otherwise nothing.
\* With max_size = 1: add "1", add "2", get "1" returns the stored "1",
\* leaves "1" alone in the cache and "2" in the store.
PromoteStep ==
    (last'.op = "get" /\ last'.id \notin DOMAIN cache /\ last'.id \in DOMAIN database)
        => LET id == last'.id
           IN /\ last'.result = database[id]
              /\ id \in DOMAIN cache' /\ cache'[id] = database[id]
              /\ id \in DictKeys(access_timestamps')
              /\ DictGet(access_timestamps', id) = clock'
              /\ id \in DOMAIN database' /\ database'[id] = database[id]
              /\ IF Size >= max_size
                 THEN \E v \in DOMAIN cache :
                          /\ Oldest(v)
                          /\ last'.evicted = v
                          /\ DOMAIN cache' = (DOMAIN cache \ {v}) \cup {id}
                          /\ database' = MapPut(database, v, cache[v])
                 ELSE /\ last'.evicted = None
                      /\ DOMAIN cache' = DOMAIN cache \cup {id}
                      /\ database' = database
LatestAddedCopyStep ==
    (last.op = "add" /\ last'.op = "get" /\ last'.id = last.id
     /\ last'.result # NoEntity)
        => last'.result.data = last.data
HeldCopyStep ==
    /\ (last'.op = "add" /\ last'.id \notin DOMAIN cache)
           => (last'.id \in DOMAIN cache'
               /\ cache'[last'.id] = Entity(last'.id, last'.data))
    /\ \A k \in DOMAIN cache \cap DOMAIN cache' : cache'[k] = cache[k]
    /\ last'.op = "get"
           => last'.result = IF last'.id \in DOMAIN cache THEN cache[last'.id]
                             ELSE MapGet(database, last'.id)
    /\ last'.op # "get" => last'.result = NoEntity
RemoveStep ==
    last'.op = "remove" =>
        /\ ~last'.raised
        /\ last'.id \notin DOMAIN cache'
        /\ last'.id \notin DictKeys(access_timestamps')
        /\ last'.id \notin DOMAIN database'
        /\ \A k \in DOMAIN cache \ {last'.id} :
               k \in DOMAIN cache' /\ cache'[k] = cache[k]
        /\ \A k \in DOMAIN database \ {last'.id} :
               k \in DOMAIN database' /\ database'[k] = database[k]
        /\ (last'.id \notin DOMAIN cache /\ last'.id \notin DOMAIN database)
               => (cache' = cache /\ database' = database
                   /\ access_timestamps' = access_timestamps)
StaysAbsentStep ==
    \A id \in Ids :
        (id \notin DOMAIN cache /\ id \notin DOMAIN database
         /\ ~(last'.op = "add" /\ last'.id = id))
            => /\ id \notin DOMAIN cache'
               /\ id \notin DictKeys(access_timestamps')
               /\ id \notin DOMAIN database'
               /\ (last'.op = "get" /\ last'.id = id) => last'.result = NoEntity
RemoveSemantics == [][RemoveStep /\ StaysAbsentStep]_vars

\* an id that was in the store and not in the cache was removed
RemoveSemanticsWitness ==
    /\ last.op = "remove" /\ ~last.resident /\ last.stored /\ ~last.raised
    /\ last.id \notin DOMAIN database /\ last.id \notin DOMAIN cache

\* C10 (clear and removeAll): clear empties the cache and the timestamps and
\* leaves the store as it was; removeAll empties the store as well, and the
\* get that follows it returns None for every id.
ClearStep ==
    last'.op = "clear" =>
        (cache' = EmptyMap /\ access_timestamps' = <<>> /\ database' = database)
RemoveAllStep ==
    last'.op = "removeAll" =>
        (cache' = EmptyMap /\ access_timestamps' = <<>> /\ database' = EmptyMap
         /\ ~last'.raised)
GetAfterRemoveAllStep ==
    (last.op = "removeAll" /\ last'.op = "get") => last'.result = NoEntity
ClearVersusRemoveAll ==
    [][ClearStep /\ RemoveAllStep /\ GetAfterRemoveAllStep]_vars

\* clear emptied a cache whose store holds entities, and the store has them
ClearVersusRemoveAllWitness ==
    /\ last.op = "clear" /\ cache = EmptyMap /\ access_timestamps = <<>>
    /\ database # EmptyMap

\* ------------------------------------------------------------------- C11
\* C11: a get for an id that is neither in the cache nor in the store
\* returns absent and leaves the cache, the access timestamps and the store
\* exactly as they were.
DoubleMissStep ==
    (last'.op = "get" /\ last'.id \notin DOMAIN cache
                      /\ last'.id \notin DOMAIN database)
        => /\ last'.result = NoEntity
           /\ ~last'.raised
           /\ cache' = cache
           /\ access_timestamps' = access_timestamps
           /\ database' = database
DoubleMissChangesNothing == [][DoubleMissStep]_vars

\* a get has just missed both tiers while both tiers held other entities
DoubleMissWitness ==
    /\ last.op = "get" /\ ~last.resident /\ ~last.stored
    /\ last.result = NoEntity
    /\ Size >= 1 /\ database # EmptyMap

\* ------------------------------------------------------------------- C12
\* C12: fault asymmetry.  A fault raised by the store during add, remove or
\* removeAll reaches the caller as an exception; get never raises, and a get
\* during which a store operation raised returns absent.
FaultAsymmetry ==
    /\ (last.op \in {"add", "remove", "removeAll"} /\ last.faulted)
           => last.raised
    /\ last.op = "get"
           => /\ ~last.raised
              /\ last.faulted => last.result = NoEntity

\* the store's get has just raised for a stored id and the cache's get
\* returned absent without raising
FaultAbsorbedWitness ==
    /\ last.op = "get" /\ last.faulted /\ last.evicted = None
    /\ last.stored /\ last.id \in DOMAIN database
    /\ last.result = NoEntity /\ ~last.raised

\* ------------------------------------------------------------------- C13
\* the store's save raised inside the _evict of the last call
EvictionFaulted == last.op \in {"add", "get"} /\ last.faulted /\ last.evicted # None

\* C13 as stated: a fault of the store's save during eviction reaches the
\* caller of the triggering operation, for add and for a promoting get alike.
EvictionFaultPropagates == EvictionFaulted => last.raised

\* C13, amended: the fault reaches the caller when add triggered the
\* eviction; when a promoting get triggered it, get catches the exception
\* and returns absent.  In both cases the entity is not inserted.
EvictionFaultByTrigger ==
    EvictionFaulted
        => /\ last.op = "add" => last.raised
           /\ last.op = "get" => (~last.raised /\ last.result = NoEntity)
           /\ last.id \notin DOMAIN cache

\* a promoting get has just had its eviction's save raise and returned absent
EvictionFaultByTriggerWitness ==
    /\ EvictionFaulted /\ last.op = "get"
    /\ last.stored /\ ~last.resident
    /\ last.result = NoEntity /\ ~last.raised

\* ------------------------------------------------------------------- C14
\* C14: when the store's save raises during an eviction triggered by an
\* insert into a full cache, nothing is rolled back and the cache is left
\* with at least max_size entries.
FaultLeavesCacheFull == EvictionFaulted => Size >= max_size

\* ------------------------------------------------------------------- C15
\* the cache, timestamps and store of an outcome
Tiers(out) == <<out.cache, out.access_timestamps, out.database>>

\* C15: clear and removeAll are idempotent.  From every reachable state,
\* calling clear twice in a row gives the same cache, timestamps and store
\* as calling it once, and so does removeAll; in the state a clear or a
\* removeAll has just left, calling it again changes nothing.
ClearTwice ==
    LET once == ClearCache(cache, access_timestamps, database)
        twice == ClearCache(once.cache, once.access_timestamps, once.database)
    IN /\ Tiers(twice) = Tiers(once)
       /\ last.op = "clear"
              => Tiers(once) = <<cache, access_timestamps, database>>
RemoveAllTwice ==
    LET once == RemoveAllEntities(cache, access_timestamps, database, None)
        twice == RemoveAllEntities(once.cache, once.access_timestamps,
                                   once.database, None)
    IN /\ ~once.raised /\ ~twice.raised
       /\ Tiers(twice) = Tiers(once)
       /\ last.op = "removeAll"
              => Tiers(once) = <<cache, access_timestamps, database>>
Idempotence == constructed => (ClearTwice /\ RemoveAllTwice)

\* removeAll has just run after entities had been added, and a second
\* removeAll from here is the call the claim compares with it
IdempotenceWitness ==
    /\ last.op = "removeAll" /\ ~last.raised
    /\ clock >= 1
    /\ Tiers(RemoveAllEntities(cache, access_timestamps, database, None))
           = <<EmptyMap, <<>>, EmptyMap>>

\* ------------------------------------------------------------------- C16
\* C16: CacheService(max_size <= 0, ...) fails with an error and yields no
\* object, so no operation ever runs; a constructed cache has the max_size
\* it was constructed with in every later state.
ConfigurationError ==
    /\ max_size_arg <= 0
           => /\ ~constructed
              /\ last.op = "__init__" /\ last.raised
              /\ cache = EmptyMap /\ access_timestamps = <<>>
              /\ database = EmptyMap
    /\ max_size_arg >= 1
           => /\ constructed
              /\ max_size = max_size_arg
              /\ last.op = "__init__" => ~last.raised

\* the constructor was called with max_size = 0 and raised
ConfigurationErrorWitness ==
    max_size_arg = 0 /\ ~constructed /\ last.op = "__init__" /\ last.raised

\* ------------------------------------------------------------------- C17
\* C17: the store is written only by eviction and deleted from only by
\* remove and removeAll.  A step that changes the store is an add or get
\* whose eviction saved the victim's resident copy, or a remove or removeAll
\* that only deletes; an add of a resident id, an add below capacity, a get
\* that hits the cache, a get that misses both tiers and clear leave the
\* store unchanged; a promoting get leaves the store's copy of the promoted
\* id in place.
StoreFrameStep ==
    LET op == last'.op
        id == last'.id
    IN /\ database' # database
              => \/ /\ op \in {"add", "get"} /\ last'.evicted # None
                    /\ database' = MapPut(database, last'.evicted,
                                          MapGet(cache, last'.evicted))
                 \/ /\ op \in {"remove", "removeAll"}
                    /\ \A k \in DOMAIN database' :
                           k \in DOMAIN database /\ database'[k] = database[k]
       /\ (op = "add" /\ (id \in DOMAIN cache \/ Size < max_size))
              => database' = database
       /\ (op = "get" /\ (id \in DOMAIN cache \/ id \notin DOMAIN database))
              => database' = database
       /\ op = "clear" => database' = database
       /\ (op = "get" /\ id \notin DOMAIN cache /\ id \in DOMAIN database)
              => /\ id \in DOMAIN database'
                 /\ database'[id] = database[id]
StoreFrame == [][StoreFrameStep]_vars

\* a get has just promoted an entity into a full cache: the victim went to
\* the store and the promoted id is still there
StoreFrameWitness ==
    /\ last.op = "get" /\ ~last.resident /\ last.stored
    /\ last.result # NoEntity /\ last.evicted # None
    /\ last.id \in DOMAIN cache /\ last.id \in DOMAIN database
    /\ last.evicted \in DOMAIN database

\* ------------------------------------------------------------------- C18
\* the ids held in the cache or in the store
Present == DOMAIN cache \cup DOMAIN database

\* C18: no id is lost under capacity pressure.  In the fault-free model an
\* add makes its id resident, no add or get makes an id that was resident or
\* stored disappear from both tiers, and a get for such an id returns its
\* entity; so along any sequence of add and get calls every id passed to
\* add stays in one of the tiers and can be got.
NoIdLostStep ==
    last'.op \in {"add", "get"}
        => /\ ~last'.raised
           /\ last'.op = "add" => last'.id \in DOMAIN cache'
           /\ \A k \in Present : k \in Present'
           /\ (last'.op = "get" /\ last'.id \in Present)
                  => /\ last'.result # NoEntity
                     /\ last'.result.id = last'.id
                     /\ last'.id \in DOMAIN cache'
NoIdLost == [][NoIdLostStep]_vars

\* every id has been added, more than the cache can hold, and an add has
\* just evicted one of them to the store
NoIdLostWitness ==
    /\ last.op = "add" /\ ~last.resident /\ last.evicted # None
    /\ Present = Ids
    /\ Size = max_size /\ Size < NumIds
    /\ last.evicted \in DOMAIN database /\ last.evicted \notin DOMAIN cache

\* ------------------------------------------------------------------- C19
\* C19: eviction never loses the evicted entity.  When a call that ran an
\* eviction has ended, with or without a fault of save, the victim is still
\* in the cache or is in the store.
VictimKept ==
    last.evicted # None
        => (last.evicted \in DOMAIN cache \/ last.evicted \in DOMAIN database)

\* ------------------------------------------------------------------- C20
\* both concurrent add calls, started for ids that were not resident, ended
PairDone ==
    /\ threads # <<>>
    /\ \A t \in Threads : threads[t].pc = "done" /\ ~threads[t].resident

\* C20: two add calls for distinct non-resident ids that run concurrently,
\* interleaved statement by statement, leave at most max_size entries in the
\* cache, the same keys in cache and access_timestamps, never evict the same
\* entity twice, and neither call raises.
ConcurrentAddsAtomic ==
    PairDone
        => /\ Size <= max_size
           /\ DOMAIN cache = Keys
           /\ \A t \in Threads : ~threads[t].raised
           /\ (threads[1].evicted # None /\ threads[2].evicted # None)
                  => threads[1].evicted # threads[2].evicted

====
